---- MODULE Spec2Model ----
(***************************************************************************)
(* Model of the JupyterLite PDF exporter (src/src/pdf.ts): the export      *)
(* pipeline of PdfExporter.export, the lazy engine loaders loadPandoc and  *)
(* loadTypst, the math extractor preprocessNotebook, the splicer           *)
(* postprocessTypst and the PdfExportProgress singleton.                   *)
(*                                                                         *)
(* Text is a sequence of one-character strings, indexed from 0 as in       *)
(* JavaScript through the helpers below.                                   *)
(***************************************************************************)
EXTENDS Integers, Sequences, FiniteSets, TLC

(***************************************************************************)
(* Bounds of the model.                                                    *)
(***************************************************************************)
\* number of export calls issued (sequentially or overlapping)
NumExports == 2
\* largest number of math outputs of a notebook handed to the splicer
MaxMath == 11

Exports == 1..NumExports

(***************************************************************************)
(* JavaScript string primitives.                                           *)
(***************************************************************************)
Min(a, b) == IF a < b THEN a ELSE b
Max(a, b) == IF a > b THEN a ELSE b

\* the element of a one-element set; The({F(x) : x \in {v}}) is F of a local
\* constant x whose value v is computed once
The(S) == CHOOSE r \in S : TRUE

\* s[i] with i counted from 0
CharAt(s, i) == s[i + 1]

\* String.prototype.slice(a, b): negative indices count from the end
Clamp(s, i) == IF i < 0 THEN Max(Len(s) + i, 0) ELSE Min(i, Len(s))
Slice(s, a, b) ==
    IF Clamp(s, a) >= Clamp(s, b) THEN << >>
    ELSE SubSeq(s, Clamp(s, a) + 1, Clamp(s, b))
SliceFrom(s, a) == Slice(s, a, Len(s))

\* String.prototype.indexOf(t, from): first position >= from, or -1
MatchAt(s, t, i) ==
    /\ i >= 0
    /\ i + Len(t) <= Len(s)
    /\ \A j \in 1..Len(t) : s[i + j] = t[j]
IndexOfFrom(s, t, from) ==
    LET hits == {i \in Max(from, 0)..(Len(s) - Len(t)) : MatchAt(s, t, i)}
    IN IF hits = {} THEN -1 ELSE CHOOSE i \in hits : \A j \in hits : i <= j
IndexOf(s, t) == IndexOfFrom(s, t, 0)

\* String.prototype.lastIndexOf(t, from): last position <= from, or -1
LastIndexOf(s, t, from) ==
    LET hits == {i \in 0..Min(from, Len(s) - Len(t)) : MatchAt(s, t, i)}
    IN IF hits = {} THEN -1 ELSE CHOOSE i \in hits : \A j \in hits : i >= j

\* String.prototype.includes(t)
Includes(s, t) == IndexOf(s, t) # -1

\* String.prototype.trim()
IsSpace(c) == c \in {" ", "\n", "\t"}
RECURSIVE TrimStart(_)
TrimStart(s) ==
    IF s # << >> /\ IsSpace(Head(s)) THEN TrimStart(Tail(s)) ELSE s
RECURSIVE TrimEnd(_)
TrimEnd(s) ==
    IF s # << >> /\ IsSpace(s[Len(s)]) THEN TrimEnd(SubSeq(s, 1, Len(s) - 1))
    ELSE s
Trim(s) == TrimEnd(TrimStart(s))

\* Array.prototype.join('')
RECURSIVE Join(_)
Join(parts) == IF parts = << >> THEN << >> ELSE Head(parts) \o Join(Tail(parts))

\* decimal rendering of a number inside a template literal
Digit(d) == CASE d = 0 -> "0" [] d = 1 -> "1" [] d = 2 -> "2" [] d = 3 -> "3"
              [] d = 4 -> "4" [] d = 5 -> "5" [] d = 6 -> "6" [] d = 7 -> "7"
              [] d = 8 -> "8" [] d = 9 -> "9"
RECURSIVE ToDecimal(_)
ToDecimal(n) ==
    IF n < 10 THEN <<Digit(n)>> ELSE ToDecimal(n \div 10) \o <<Digit(n % 10)>>

(***************************************************************************)
(* Text constants of pdf.ts.                                               *)
(***************************************************************************)
\* the fence character searched by postprocessTypst, the backquote (spelled
\* out: the character itself cannot stand in a string of this language)
FENCE == "<bq>"
NL == "\n"
\* 'ERROR', the marker looked for in the converter's stderr
ERROR_MARKER == <<"E", "R", "R", "O", "R">>
\* 'PDFEXPORTER_MATH_'
PLACEHOLDER_PREFIX ==
    <<"P", "D", "F", "E", "X", "P", "O", "R", "T", "E", "R", "_",
      "M", "A", "T", "H", "_">>
\* '$\displaystyle', the opening of the wrapper of IPython.display.Math
DISPLAYSTYLE ==
    <<"$", "\\", "d", "i", "s", "p", "l", "a", "y", "s", "t", "y", "l", "e">>

\* the template literal PDFEXPORTER_MATH_${counter++}
Placeholder(counter) == PLACEHOLDER_PREFIX \o ToDecimal(counter)

(***************************************************************************)
(* Notebook values.  An output carries output_type, hasData (whether the   *)
(* data field exists) and the two MIME entries the extractor touches; a    *)
(* MIME value is undefined, a string, or a list of lines.                  *)
(***************************************************************************)
Undefined == [kind |-> "undefined"]
StrVal(s) == [kind |-> "string", s |-> s]
ListVal(l) == [kind |-> "list", l |-> l]

Output(type, hasData, latex, plain) ==
    [output_type |-> type, hasData |-> hasData, latex |-> latex, plain |-> plain]
\* a cell; outputsIsArray is Array.isArray(cell.outputs)
Cell(source, outputsIsArray, outputs) ==
    [source |-> source, outputsIsArray |-> outputsIsArray, outputs |-> outputs]

(***************************************************************************)
(* preprocessNotebook (pdf.ts 222-266).                                    *)
(***************************************************************************)
\* raw.match(/^\$\\displaystyle\s*([\s\S]*?)\s*\$$/): the greedy \s* eats the
\* leading blanks, the lazy group stops before the trailing blanks
DisplayStyleMatches(raw) ==
    /\ Len(raw) >= Len(DISPLAYSTYLE) + 1
    /\ MatchAt(raw, DISPLAYSTYLE, 0)
    /\ raw[Len(raw)] = "$"
DisplayStyleGroup(raw) == Trim(Slice(raw, Len(DISPLAYSTYLE), Len(raw) - 1))

\* lines 245-249
RawLatex(latex) ==
    Trim(IF latex.kind = "list" THEN Join(latex.l) ELSE latex.s)
\* an extractor that stores the source with its wrapper
MathContent_KeepsWrapper(raw) == raw

\* lines 253-256
MathContent(raw) ==
    IF DisplayStyleMatches(raw) THEN DisplayStyleGroup(raw) ELSE raw

\* an extractor that leaves the output type alone
NormalizedType_Unchanged(type) == type

\* lines 236-238
NormalizedType(type) ==
    IF type = "update_display_data" THEN "display_data" ELSE type

\* data?.['text/latex'] === undefined (line 241)
HasNoLatex(output) == ~output.hasData \/ output.latex.kind = "undefined"

\* a counter read after its increment
NextPlaceholder_FromOne(counter) == Placeholder(counter + 1)

\* the token given to the output numbered counter (line 258)
NextPlaceholder(counter) == Placeholder(counter)

\* one output (lines 234-262): st is [outputs, mathMap, counter]
PreprocessOutput(st, output) ==
    LET typed == [output EXCEPT !.output_type = NormalizedType(@)]
    IN IF HasNoLatex(typed)
       THEN [st EXCEPT !.outputs = Append(@, typed)]
       ELSE LET placeholder == NextPlaceholder(st.counter)
                mathContent == MathContent(RawLatex(typed.latex))
            IN [outputs |-> Append(st.outputs,
                               [typed EXCEPT !.plain = StrVal(placeholder),
                                             !.latex = Undefined]),
                mathMap |-> Append(st.mathMap,
                               [placeholder |-> placeholder,
                                latexContent |-> mathContent]),
                counter |-> st.counter + 1]

RECURSIVE PreprocessOutputs(_, _)
PreprocessOutputs(st, outputs) ==
    IF outputs = << >> THEN st
    ELSE The({PreprocessOutputs(next, Tail(outputs)) :
                  next \in {PreprocessOutput(st, Head(outputs))}})

\* one cell (lines 229-263): st is [cells, mathMap, counter]
PreprocessCell(st, cell) ==
    IF ~cell.outputsIsArray
    THEN [st EXCEPT !.cells = Append(@, cell)]
    ELSE The({[cells |-> Append(st.cells, [cell EXCEPT !.outputs = r.outputs]),
               mathMap |-> r.mathMap,
               counter |-> r.counter] :
                  r \in {PreprocessOutputs(
                             [outputs |-> << >>, mathMap |-> st.mathMap,
                              counter |-> st.counter], cell.outputs)}})

RECURSIVE PreprocessCells(_, _)
PreprocessCells(st, cells) ==
    IF cells = << >> THEN st
    ELSE The({PreprocessCells(next, Tail(cells)) :
                  next \in {PreprocessCell(st, Head(cells))}})

\* the notebook as left in place, and the returned Map in insertion order
preprocessNotebook(notebook) ==
    The({[notebook |-> r.cells, mathMap |-> r.mathMap] :
             r \in {PreprocessCells(
                        [cells |-> << >>, mathMap |-> << >>, counter |-> 0],
                        notebook)}})

(***************************************************************************)
(* postprocessTypst (pdf.ts 280-338).                                      *)
(***************************************************************************)
\* the stdin of the math-fragment call (line 290)
MathStdin(latexContent) == <<"$", "$", NL>> \o latexContent \o <<NL, "$", "$">>

\* the literal fallback block (line 297)
FallbackBlock(latexContent) ==
    <<FENCE, FENCE, FENCE, "l", "a", "t", "e", "x", NL>> \o latexContent
        \o <<NL, FENCE, FENCE, FENCE>>

\* lines 286-298: outcome is what the awaited converter call did
TypstMathOf(outcome, latexContent) ==
    IF outcome.raised THEN FallbackBlock(latexContent)
    ELSE Trim(outcome.stdout)

\* lines 311-314
RECURSIVE WalkBack(_, _)
WalkBack(s, fenceStart) ==
    IF fenceStart > 0 /\ CharAt(s, fenceStart - 1) = FENCE
    THEN WalkBack(s, fenceStart - 1) ELSE fenceStart

\* lines 322-328
RECURSIVE WalkForward(_, _)
WalkForward(s, closingFenceEnd) ==
    IF closingFenceEnd + 1 < Len(s) /\ CharAt(s, closingFenceEnd + 1) = FENCE
    THEN WalkForward(s, closingFenceEnd + 1) ELSE closingFenceEnd

\* line 304
PlaceholderIndex(typstContent, placeholder) == IndexOf(typstContent, placeholder)

\* a splicer that does not look whether a closing fence was found
SpliceEntry_NoClosingCheck(typstContent, placeholder, typstMath) ==
    The({
      IF idx = -1 THEN typstContent
      ELSE The({
        LET fenceOpen == LastIndexOf(typstContent, <<FENCE>>, idx)
            fenceStart == WalkBack(typstContent, fenceOpen)
            closingFenceEnd == WalkForward(typstContent, closingFenceStart)
        IN Slice(typstContent, 0, fenceStart) \o typstMath \o <<NL>>
               \o SliceFrom(typstContent, closingFenceEnd + 1) :
          closingFenceStart \in
              {IndexOfFrom(typstContent, <<FENCE>>, idx + Len(placeholder))}}) :
        idx \in {PlaceholderIndex(typstContent, placeholder)}})

\* lines 300-334: the document after the entry (placeholder, typstMath)
SpliceEntry(typstContent, placeholder, typstMath) ==
    The({
      IF idx = -1 THEN typstContent
      ELSE The({
        IF closingFenceStart = -1 THEN typstContent
        ELSE LET fenceOpen == LastIndexOf(typstContent, <<FENCE>>, idx)
                 fenceStart == WalkBack(typstContent, fenceOpen)
                 closingFenceEnd == WalkForward(typstContent, closingFenceStart)
             IN Slice(typstContent, 0, fenceStart) \o typstMath \o <<NL>>
                    \o SliceFrom(typstContent, closingFenceEnd + 1) :
          closingFenceStart \in
              {IndexOfFrom(typstContent, <<FENCE>>, idx + Len(placeholder))}}) :
        idx \in {PlaceholderIndex(typstContent, placeholder)}})

(***************************************************************************)
(* State.                                                                  *)
(***************************************************************************)
VARIABLES
    pandocConvert,          \* line 17: TRUE when the handle is non-null
    pandocLoadingPromise,   \* line 28: "null", or the state of the promise
    typstLoaded,            \* line 29
    typstLoadingPromise,    \* line 30: "null", or the state of the promise
    typstGlobal,            \* typeof $typst: "undefined" or "defined"
    typstLoadStep,          \* where the body of lines 171-186 stands
    shadow,                 \* the shadow filesystem of $typst: {[path, data]}
    pdfExportProgress,      \* the PdfExportProgress singleton and its timers
    collaborator,           \* which progress collaborator export() talks to
    loads,                  \* history: loads started for each engine
    calls                   \* one record for each call of PdfExporter.export

vars == <<pandocConvert, pandocLoadingPromise, typstLoaded, typstLoadingPromise,
          typstGlobal, typstLoadStep, shadow, pdfExportProgress, collaborator,
          loads, calls>>

engineVars == <<pandocConvert, pandocLoadingPromise, typstLoaded,
                typstLoadingPromise, typstGlobal, typstLoadStep, loads>>

(***************************************************************************)
(* PdfExportProgress (pdf.ts 366-418).  pending and issued stand for the   *)
(* timer table of window: the timers not yet fired or cleared, and the     *)
(* number of timers handed out.                                            *)
(***************************************************************************)
MSG_PREPARING == "Preparing PDF export..."
MSG_CONVERTING == "Converting notebook..."
MSG_GENERATING == "Generating PDF..."
MSG_SUCCESS == "PDF exported successfully"
MSG_FAILED == "PDF export failed"

InitProgress ==
    [isActive |-> FALSE, message |-> "", hideTimeout |-> 0,
     pending |-> {}, issued |-> 0]

\* start (lines 383-392)
ProgressStart(p, message) ==
    [p EXCEPT !.pending = IF p.hideTimeout # 0 THEN @ \ {p.hideTimeout} ELSE @,
              !.hideTimeout = 0,
              !.isActive = TRUE,
              !.message = message]

\* update (lines 394-397)
ProgressUpdate(p, message) == [p EXCEPT !.message = message]

\* finish (lines 399-409)
ProgressFinish(p, message) ==
    [p EXCEPT !.message = message,
              !.hideTimeout = p.issued + 1,
              !.pending = @ \cup {p.issued + 1},
              !.issued = @ + 1]

\* the callback of the hide timer (lines 403-408)
ProgressHide(p, timer) ==
    [p EXCEPT !.isActive = FALSE,
              !.message = "",
              !.hideTimeout = 0,
              !.pending = @ \ {timer}]

\* whether a call to the collaborator may raise: PdfExportProgress never does
Faults == IF collaborator = "raising" THEN BOOLEAN ELSE {FALSE}

(***************************************************************************)
(* Errors: the value thrown, as name and attached text.                    *)
(***************************************************************************)
Err(name, text) == [name |-> name, text |-> text]
NoError == Err("", << >>)
PandocImportError == Err("import('pandoc-wasm') rejected", << >>)
TypstImportError == Err("import('@myriaddreamin/typst-all-in-one.ts') rejected", << >>)
ConverterRaised == Err("pandocConvert rejected", << >>)
BlobReadError == Err("content.arrayBuffer() rejected", << >>)
CompilerRaised == Err("$typst.pdf rejected", << >>)
CollaboratorRaised == Err("pdfExportProgress raised", << >>)
\* line 79
ConversionFailed(stderr) == Err("Error: Pandoc conversion failed: ", stderr)
\* line 117
EmptyOutput == Err("Error: Typst produced empty PDF output", << >>)

(***************************************************************************)
(* loadPandoc and loadTypst (pdf.ts 142-189), up to their first await.     *)
(***************************************************************************)
\* a loader that forgets the in-flight promise of line 146
StartsPandocLoad_NoCoalescing(convert, promise) == ~convert

\* lines 143-148: no early return, so the import is started
StartsPandocLoad(convert, promise) == ~convert /\ promise = "null"

\* lines 164-169
StartsTypstLoad(loaded, global, promise) ==
    ~(loaded /\ global = "defined") /\ promise = "null"

\* an await that goes on as soon as the converter is loaded
LoadsFulfilled_PandocOnly ==
    pandocConvert \/ pandocLoadingPromise = "fulfilled"

\* what await Promise.all([loadPandoc(), loadTypst()]) of line 56 settles to
LoadsFulfilled ==
    /\ pandocConvert \/ pandocLoadingPromise = "fulfilled"
    /\ (typstLoaded /\ typstGlobal = "defined") \/ typstLoadingPromise = "fulfilled"
LoadRejections ==
    {PandocImportError : x \in {1} \cap
        {IF ~pandocConvert /\ pandocLoadingPromise = "rejected" THEN 1 ELSE 0}}
    \cup
    {TypstImportError : x \in {1} \cap
        {IF ~(typstLoaded /\ typstGlobal = "defined")
               /\ typstLoadingPromise = "rejected" THEN 1 ELSE 0}}

(***************************************************************************)
(* The typesetting engine $typst (declared at pdf.ts 11-15).               *)
(***************************************************************************)
MAIN_PATH == <<"/", "m", "a", "i", "n", ".", "t", "y", "p">>

\* new TextEncoder().encode(text): the alphabet of the model is ASCII, where
\* the bytes are the code units
Encode(text) == [utf8 |-> text]
\* new Uint8Array(await blob.arrayBuffer())
BlobBytes(content) == [blob |-> content.id]

\* a reset that leaves the mapped files in place
ResetShadow_KeepsFiles(sh) == sh

\* $typst.resetShadow()
ResetShadow(sh) == {}
\* $typst.mapShadow(path, data)
MapShadow(sh, path, data) ==
    {f \in sh : f.path # path} \cup {[path |-> path, data |-> data]}

EngineCall(op, path, data) == [op |-> op, path |-> path, data |-> data]

(***************************************************************************)
(* One call of PdfExporter.export (pdf.ts 50-132).  A call runs from one   *)
(* await to the next in one step; pc names the await it is suspended at.   *)
(***************************************************************************)
NoResult ==
    [stdout |-> << >>, stderr |-> << >>, hasMedia |-> FALSE, mediaFiles |-> << >>]
NoPdf == [kind |-> "none", length |-> 0]

InitCall ==
    [pc |-> "idle",
     model |-> << >>,         \* model.content as passed by the caller
     notebook |-> << >>,      \* the same object, as mutated in place
     mathMap |-> << >>,
     result |-> NoResult,     \* what the whole-notebook converter call returned
     typstContent |-> << >>,
     i |-> 0,                 \* entry of mathMap whose conversion is awaited
     k |-> 0,                 \* media file whose bytes are awaited
     pdfData |-> NoPdf,
     cause |-> NoError,       \* what was thrown inside the try block
     error |-> NoError,       \* what the call threw to its caller
     download |-> NoPdf,      \* what triggerBlobDownload was given
     \* history
     events |-> << >>,        \* progress messages delivered, then the outcome
     mathCalls |-> << >>,     \* stdin of each math-fragment converter call
     mathOutcomes |-> << >>,  \* what each of those calls did
     engine |-> << >>,        \* calls made on $typst
     compiledWith |-> {},     \* the shadow filesystem when pdf() was called
     overlapped |-> FALSE]    \* another call was in flight during this one

Active(c) == c.pc \notin {"idle", "done", "failed"}

\* the part of the state one segment of a call works on
World(c, p, sh) == [c |-> c, p |-> p, shadow |-> sh]

\* a catch block that rethrows without telling the progress collaborator
Catch_NoNotification(w, error, raises) ==
    [w EXCEPT !.c.pc = "failed",
              !.c.cause = error,
              !.c.error = error,
              !.c.events = Append(@, "throw")]

\* lines 128-131: error was thrown in the try block; raises says that finish
\* itself raised
Catch(w, error, raises) ==
    IF raises
    THEN [w EXCEPT !.c.pc = "failed",
                   !.c.cause = error,
                   !.c.error = CollaboratorRaised,
                   !.c.events = Append(@, "throw")]
    ELSE [w EXCEPT !.c.pc = "failed",
                   !.c.cause = error,
                   !.c.error = error,
                   !.c.events = @ \o <<MSG_FAILED, "throw">>,
                   !.p = ProgressFinish(@, MSG_FAILED)]

\* a check that takes any output on stderr for a failure
HasErrorMarker_AnyStderr(stderr) == stderr # << >>

\* line 78
HasErrorMarker(stderr) == stderr # << >> /\ Includes(stderr, ERROR_MARKER)

\* a check that misses the zero-length buffer
IsEmptyPdf_NullOnly(pdfData) == pdfData.kind = "null"

\* line 116
IsEmptyPdf(pdfData) == pdfData.kind = "null" \/ pdfData.length = 0

\* lines 98-112: the media loop from entry k on, up to the next await
RECURSIVE MediaLoop(_, _)
MediaLoop(w, k) ==
    IF ~w.c.result.hasMedia \/ k > Len(w.c.result.mediaFiles)
    THEN [w EXCEPT !.c.pc = "awaitPdf",
                   !.c.engine = Append(@, EngineCall("pdf", MAIN_PATH, << >>)),
                   !.c.compiledWith = w.shadow]
    ELSE LET file == w.c.result.mediaFiles[k]
             path == <<"/">> \o file.filename
         IN IF file.content.kind = "blob"
            THEN [w EXCEPT !.c.pc = "awaitBlob", !.c.k = k]
            ELSE MediaLoop(
                   [w EXCEPT !.c.engine = Append(@,
                                 EngineCall("mapShadow", path, Encode(file.content.s))),
                             !.shadow = MapShadow(@, path, Encode(file.content.s))],
                   k + 1)

\* a step 4 that maps the document without the blanks at its ends
ResetAndMapMain_Trimmed(w) ==
    [w EXCEPT !.c.engine = @ \o <<EngineCall("resetShadow", << >>, << >>),
                                  EngineCall("mapShadow", MAIN_PATH,
                                             Encode(Trim(w.c.typstContent)))>>,
              !.shadow = MapShadow(ResetShadow(@), MAIN_PATH,
                                   Encode(Trim(w.c.typstContent)))]

\* lines 88-92
ResetAndMapMain(w) ==
    [w EXCEPT !.c.engine = @ \o <<EngineCall("resetShadow", << >>, << >>),
                                  EngineCall("mapShadow", MAIN_PATH,
                                             Encode(w.c.typstContent))>>,
              !.shadow = MapShadow(ResetShadow(@), MAIN_PATH,
                                   Encode(w.c.typstContent))]

\* a step 4 that does not tell the progress collaborator
CompileStage_NoUpdate(w, f1, f2) ==
    IF f1 THEN Catch(w, CollaboratorRaised, f2)
    ELSE MediaLoop(ResetAndMapMain(w), 1)

\* lines 88-112: step 4 up to its first await
CompileStage(w, f1, f2) ==
    IF f1 THEN Catch(w, CollaboratorRaised, f2)
    ELSE MediaLoop(
           ResetAndMapMain(
             [w EXCEPT !.p = ProgressUpdate(@, MSG_GENERATING),
                       !.c.events = Append(@, MSG_GENERATING)]),
           1)

\* lines 51-56, the loaders aside
SegStart(w, model, f1, f2) ==
    LET w0 == [w EXCEPT !.c.model = model, !.c.notebook = model]
    IN IF f1 THEN Catch(w0, CollaboratorRaised, f2)
       ELSE [w0 EXCEPT !.p = ProgressStart(@, MSG_PREPARING),
                       !.c.events = Append(@, MSG_PREPARING),
                       !.c.pc = "awaitLoad"]

\* lines 58-76
SegLoaded(w, f1, f2) ==
    IF f1 THEN Catch(w, CollaboratorRaised, f2)
    ELSE The({[w EXCEPT !.p = ProgressUpdate(@, MSG_CONVERTING),
                        !.c.events = Append(@, MSG_CONVERTING),
                        !.c.notebook = pre.notebook,
                        !.c.mathMap = pre.mathMap,
                        !.c.pc = "awaitConvert"] :
                  pre \in {preprocessNotebook(w.c.notebook)}})

\* the first math-fragment call of postprocessTypst (lines 284-292)
EnterSplice(w) ==
    [w EXCEPT !.c.i = 1,
              !.c.mathCalls = <<MathStdin(w.c.mathMap[1].latexContent)>>,
              !.c.pc = "awaitMath"]

\* lines 78-86, then step 4 when the map is empty
SegConverted(w, outcome, f1, f2) ==
    IF outcome.raised THEN Catch(w, ConverterRaised, f2)
    ELSE LET w0 == [w EXCEPT !.c.result = outcome.result,
                             !.c.typstContent = outcome.result.stdout]
         IN IF HasErrorMarker(outcome.result.stderr)
            THEN Catch(w0, ConversionFailed(outcome.result.stderr), f2)
            ELSE IF Len(w.c.mathMap) > 0 THEN EnterSplice(w0)
            ELSE CompileStage(w0, f1, f2)

\* lines 293-335 for entry i, then the next entry or step 4
SegMath(w, outcome, f1, f2) ==
    LET entry == w.c.mathMap[w.c.i]
        typstMath == TypstMathOf(outcome, entry.latexContent)
    IN The({IF w.c.i < Len(w.c.mathMap)
            THEN [w0 EXCEPT !.c.i = @ + 1,
                            !.c.mathCalls = Append(@,
                                MathStdin(w.c.mathMap[w.c.i + 1].latexContent))]
            ELSE CompileStage(w0, f1, f2) :
               w0 \in {[w EXCEPT !.c.typstContent =
                                     SpliceEntry(w.c.typstContent,
                                                 entry.placeholder, typstMath),
                                 !.c.mathOutcomes = Append(@, outcome)]}})

\* lines 102-110 after the bytes of media file k arrived
SegBlob(w, ok, f2) ==
    IF ~ok THEN Catch(w, BlobReadError, f2)
    ELSE LET file == w.c.result.mediaFiles[w.c.k]
             path == <<"/">> \o file.filename
         IN MediaLoop(
              [w EXCEPT !.c.engine = Append(@,
                            EngineCall("mapShadow", path, BlobBytes(file.content))),
                        !.shadow = MapShadow(@, path, BlobBytes(file.content))],
              w.c.k + 1)

\* lines 112-127
SegPdf(w, outcome, f1, f2) ==
    IF outcome.raised THEN Catch(w, CompilerRaised, f2)
    ELSE LET w0 == [w EXCEPT !.c.pdfData = outcome.pdfData]
         IN IF IsEmptyPdf(outcome.pdfData) THEN Catch(w0, EmptyOutput, f2)
            ELSE LET w1 == [w0 EXCEPT !.c.download = outcome.pdfData]
                 IN IF f1 THEN Catch(w1, CollaboratorRaised, f2)
                    ELSE [w1 EXCEPT !.p = ProgressFinish(@, MSG_SUCCESS),
                                    !.c.events = @ \o <<MSG_SUCCESS, "return">>,
                                    !.c.pc = "done"]

(***************************************************************************)
(* The environment: notebooks handed to export, and what the converter,    *)
(* the blob reads and the compiler may answer.                             *)
(***************************************************************************)
\* largest length of a PDF the compiler returns
MaxPdfLen == 1

\* a LaTeX source the converter renders, and one it rejects
GoodSource(n) == <<"x">> \o ToDecimal(n)
BadSource(n) == <<"\\", "f", "{">> \o ToDecimal(n)
MALFORMED == <<"\\", "f", "{">>

\* a source the converter returns from without raising and without a usable
\* result: the error on stderr as at line 78, or nothing on stdout
UNRENDERABLE == <<"\\", "u", "{">>
UnusableSource(n) == UNRENDERABLE \o ToDecimal(n)

\* what IPython.display.Math stores for a source
Wrapped(source) == DISPLAYSTYLE \o <<" ">> \o source \o <<"$">>

MathOutput(n, bad) ==
    Output("execute_result", TRUE,
           StrVal(Wrapped(IF n \in bad THEN BadSource(n) ELSE GoodSource(n))),
           StrVal(<<"r">>))

\* a markdown cell, then a code cell with n math outputs, those in bad malformed
NotebookWithMath(n, bad) ==
    << Cell(<<"#", " ", "T">>, FALSE, << >>),
       Cell(<<"c">>, TRUE, [j \in 1..n |-> MathOutput(j, bad)]) >>

\* how the converter renders an output whose text/plain is text: a fenced block
FencedBlock(text) ==
    <<FENCE, FENCE, FENCE, NL>> \o text \o <<NL, FENCE, FENCE, FENCE, NL>>

\* the markup of a notebook whose math map is mathMap, the blocks of the
\* entries in dropped left out
RECURSIVE Blocks(_, _, _)
Blocks(mathMap, dropped, j) ==
    IF j > Len(mathMap) THEN << >>
    ELSE (IF j \in dropped THEN << >> ELSE FencedBlock(mathMap[j].placeholder))
             \o Blocks(mathMap, dropped, j + 1)
Markup(mathMap, dropped) == <<"T", NL>> \o Blocks(mathMap, dropped, 1)

STDERR_WARNING ==
    <<"[", "W", "A", "R", "N", "I", "N", "G", "]", " ", "e", "r", "r", "o", "r">>
STDERR_ERROR ==
    <<"p", "a", "n", "d", "o", "c", ":", " ", "E", "R", "R", "O", "R", ":", " ",
      "b", "a", "d", " ", "i", "p", "y", "n", "b">>

Blob(id) == [kind |-> "blob", id |-> id]
Str(s) == [kind |-> "string", s |-> s]
MediaFile(filename, content) == [filename |-> filename, content |-> content]

\* result.mediaFiles: absent, or the entries in the order of Object.entries
MediaNone == [hasMedia |-> FALSE, mediaFiles |-> << >>]
MediaOne == [hasMedia |-> TRUE, mediaFiles |-> <<MediaFile(<<"a">>, Blob(1))>>]
MediaTwo ==
    [hasMedia |-> TRUE,
     mediaFiles |-> <<MediaFile(<<"b">>, Str(<<"s">>)), MediaFile(<<"c">>, Blob(2))>>]
NoStderr == << >>

ConvertResult(stdout, stderr, media) ==
    [stdout |-> stdout, stderr |-> stderr,
     hasMedia |-> media.hasMedia, mediaFiles |-> media.mediaFiles]

\* the notebooks the calls of Spec export: one without math, one with a
\* math output whose source the converter rejects
Models == {NotebookWithMath(0, {}), NotebookWithMath(1, {1})}

\* what the whole-notebook converter call may write to stderr and return as
\* media files in Spec
ConvertAnswers ==
    { <<NoStderr, MediaTwo>>, <<STDERR_WARNING, MediaNone>>,
      <<STDERR_ERROR, MediaOne>> }

\* the outcomes of the whole-notebook converter call of a call c
ConvertOutcomes(c) ==
    {[raised |-> TRUE, result |-> NoResult]}
    \cup {[raised |-> FALSE,
           result |-> ConvertResult(Markup(c.mathMap, {}), a[1], a[2])] :
             a \in ConvertAnswers}

\* the outcomes of a math-fragment converter call: the converter rejects a
\* malformed source and renders any other
MathRendering(stdin) ==
    <<"$", " ">> \o Slice(stdin, 3, Len(stdin) - 3) \o <<" ", "$", NL>>
MathOutcomes(stdin) ==
    IF Includes(stdin, MALFORMED)
    THEN {[raised |-> TRUE, stdout |-> << >>, stderr |-> << >>]}
    ELSE IF Includes(stdin, UNRENDERABLE)
    THEN {[raised |-> FALSE, stdout |-> << >>, stderr |-> STDERR_ERROR],
          [raised |-> FALSE, stdout |-> <<NL>>, stderr |-> << >>]}
    ELSE {[raised |-> FALSE, stdout |-> MathRendering(stdin), stderr |-> << >>]}

\* the outcomes of $typst.pdf
PdfOutcomes ==
    {[raised |-> TRUE, pdfData |-> NoPdf],
     [raised |-> FALSE, pdfData |-> [kind |-> "null", length |-> 0]]}
    \cup {[raised |-> FALSE, pdfData |-> [kind |-> "bytes", length |-> n]] :
             n \in {0, MaxPdfLen}}

(***************************************************************************)
(* Initial state: the module just loaded (lines 17-30, 411-413).           *)
(***************************************************************************)
InitShared ==
    /\ pandocConvert = FALSE
    /\ pandocLoadingPromise = "null"
    /\ typstLoaded = FALSE
    /\ typstLoadingPromise = "null"
    /\ typstGlobal = "undefined"
    /\ typstLoadStep = "none"
    /\ shadow = {}
    /\ pdfExportProgress = InitProgress
    /\ loads = [pandoc |-> 0, typst |-> 0]
    /\ calls = [e \in Exports |-> InitCall]

Init == InitShared /\ collaborator = "PdfExportProgress"

(***************************************************************************)
(* Actions.                                                                *)
(***************************************************************************)
Commit(e, w) ==
    \E x \in {w} :
        /\ calls' = [calls EXCEPT ![e] = x.c]
        /\ pdfExportProgress' = x.p
        /\ shadow' = x.shadow

WorldOf(e) == World(calls[e], pdfExportProgress, shadow)

\* export() called: lines 50-56 with the synchronous part of both loaders.
\* Calls are numbered in the order they are made.
ExportStart(e, model, f1, f2) ==
    /\ calls[e].pc = "idle"
    /\ e > 1 => calls[e - 1].pc # "idle"
    /\ LET w == SegStart(WorldOf(e), model, f1, f2)
           others == {x \in Exports \ {e} : Active(calls[x])}
           startsPandoc == ~f1 /\ StartsPandocLoad(pandocConvert, pandocLoadingPromise)
           startsTypst ==
               ~f1 /\ StartsTypstLoad(typstLoaded, typstGlobal, typstLoadingPromise)
       IN /\ calls' = [x \in Exports |->
                         IF x = e THEN [w.c EXCEPT !.overlapped = others # {}]
                         ELSE IF x \in others
                              THEN [calls[x] EXCEPT !.overlapped = TRUE]
                              ELSE calls[x]]
          /\ pdfExportProgress' = w.p
          /\ pandocLoadingPromise' =
                 IF startsPandoc THEN "pending" ELSE pandocLoadingPromise
          /\ typstLoadingPromise' =
                 IF startsTypst THEN "pending" ELSE typstLoadingPromise
          /\ typstLoadStep' = IF startsTypst THEN "import" ELSE typstLoadStep
          /\ loads' = [pandoc |-> loads.pandoc + (IF startsPandoc THEN 1 ELSE 0),
                       typst |-> loads.typst + (IF startsTypst THEN 1 ELSE 0)]
    /\ UNCHANGED <<pandocConvert, typstLoaded, typstGlobal, shadow, collaborator>>

\* lines 151-152: the import of pandoc-wasm resolved
PandocImported ==
    /\ pandocLoadingPromise = "pending"
    /\ pandocConvert' = TRUE
    /\ pandocLoadingPromise' = "fulfilled"
    /\ UNCHANGED <<typstLoaded, typstLoadingPromise, typstGlobal, typstLoadStep,
                   shadow, pdfExportProgress, collaborator, loads, calls>>

\* line 151: the import rejected, and with it the promise of line 150
PandocImportFailed ==
    /\ pandocLoadingPromise = "pending"
    /\ pandocLoadingPromise' = "rejected"
    /\ UNCHANGED <<pandocConvert, typstLoaded, typstLoadingPromise, typstGlobal,
                   typstLoadStep, shadow, pdfExportProgress, collaborator, loads,
                   calls>>

\* a checkTypst that looks once and sets no timer to look again
CheckTypst_NoPoll ==
    IF typstGlobal = "defined"
    THEN /\ typstLoaded' = TRUE
         /\ typstLoadingPromise' = "fulfilled"
         /\ typstLoadStep' = "done"
    ELSE /\ typstLoadStep' = "done"
         /\ UNCHANGED <<typstLoaded, typstLoadingPromise>>

\* checkTypst (lines 176-183)
CheckTypst ==
    IF typstGlobal = "defined"
    THEN /\ typstLoaded' = TRUE
         /\ typstLoadingPromise' = "fulfilled"
         /\ typstLoadStep' = "done"
    ELSE /\ typstLoadStep' = "poll"
         /\ UNCHANGED <<typstLoaded, typstLoadingPromise>>

\* line 172 resolved: the first checkTypst of line 184
TypstImported ==
    /\ typstLoadStep = "import"
    /\ CheckTypst
    /\ UNCHANGED <<pandocConvert, pandocLoadingPromise, typstGlobal, shadow,
                   pdfExportProgress, collaborator, loads, calls>>

\* line 172 rejected
TypstImportFailed ==
    /\ typstLoadStep = "import"
    /\ typstLoadingPromise' = "rejected"
    /\ typstLoadStep' = "failed"
    /\ UNCHANGED <<pandocConvert, pandocLoadingPromise, typstLoaded, typstGlobal,
                   shadow, pdfExportProgress, collaborator, loads, calls>>

\* the imported module sets the global $typst, at some time of its own
TypstGlobalSet ==
    /\ typstLoadStep \in {"import", "poll"}
    /\ typstGlobal = "undefined"
    /\ typstGlobal' = "defined"
    /\ UNCHANGED <<pandocConvert, pandocLoadingPromise, typstLoaded,
                   typstLoadingPromise, typstLoadStep, shadow, pdfExportProgress,
                   collaborator, loads, calls>>

\* line 181: the 100 ms timer runs checkTypst again
TypstPolled ==
    /\ typstLoadStep = "poll"
    /\ CheckTypst
    /\ UNCHANGED <<pandocConvert, pandocLoadingPromise, typstGlobal, shadow,
                   pdfExportProgress, collaborator, loads, calls>>

\* line 56 settled with both loads done
ExportLoaded(e, f1, f2) ==
    /\ calls[e].pc = "awaitLoad"
    /\ LoadsFulfilled
    /\ Commit(e, SegLoaded(WorldOf(e), f1, f2))
    /\ UNCHANGED <<engineVars, collaborator>>

\* line 56 rejected
ExportLoadFailed(e, error, f2) ==
    /\ calls[e].pc = "awaitLoad"
    /\ error \in LoadRejections
    /\ Commit(e, Catch(WorldOf(e), error, f2))
    /\ UNCHANGED <<engineVars, collaborator>>

\* line 66 settled
ConvertSettled(e, outcome, f1, f2) ==
    /\ calls[e].pc = "awaitConvert"
    /\ outcome \in ConvertOutcomes(calls[e])
    /\ Commit(e, SegConverted(WorldOf(e), outcome, f1, f2))
    /\ UNCHANGED <<engineVars, collaborator>>

\* line 288 settled
MathSettled(e, outcome, f1, f2) ==
    /\ calls[e].pc = "awaitMath"
    /\ outcome \in MathOutcomes(calls[e].mathCalls[calls[e].i])
    /\ Commit(e, SegMath(WorldOf(e), outcome, f1, f2))
    /\ UNCHANGED <<engineVars, collaborator>>

\* line 102 settled
BlobSettled(e, ok, f2) ==
    /\ calls[e].pc = "awaitBlob"
    /\ Commit(e, SegBlob(WorldOf(e), ok, f2))
    /\ UNCHANGED <<engineVars, collaborator>>

\* line 112 settled
PdfSettled(e, outcome, f1, f2) ==
    /\ calls[e].pc = "awaitPdf"
    /\ outcome \in PdfOutcomes
    /\ Commit(e, SegPdf(WorldOf(e), outcome, f1, f2))
    /\ UNCHANGED <<engineVars, collaborator>>

\* lines 403-408: a hide timer fires; the timers all have the delay of 3000 ms
\* and so fire in the order they were set
HideTimerFired(timer) ==
    /\ timer \in pdfExportProgress.pending
    /\ \A t \in pdfExportProgress.pending : timer <= t
    /\ pdfExportProgress' = ProgressHide(pdfExportProgress, timer)
    /\ UNCHANGED <<engineVars, shadow, collaborator, calls>>

Next ==
    \/ \E e \in Exports, model \in Models, f1, f2 \in Faults :
           ExportStart(e, model, f1, f2)
    \/ PandocImported
    \/ PandocImportFailed
    \/ TypstImported
    \/ TypstImportFailed
    \/ TypstGlobalSet
    \/ TypstPolled
    \/ \E e \in Exports, f1, f2 \in Faults : ExportLoaded(e, f1, f2)
    \/ \E e \in Exports, f2 \in Faults :
           \E error \in LoadRejections : ExportLoadFailed(e, error, f2)
    \/ \E e \in Exports, f1, f2 \in Faults :
           \E outcome \in ConvertOutcomes(calls[e]) :
               ConvertSettled(e, outcome, f1, f2)
    \/ \E e \in Exports, f1, f2 \in Faults :
           \E outcome \in MathOutcomes(
                  IF calls[e].pc = "awaitMath"
                  THEN calls[e].mathCalls[calls[e].i] ELSE << >>) :
               MathSettled(e, outcome, f1, f2)
    \/ \E e \in Exports, ok \in BOOLEAN, f2 \in Faults : BlobSettled(e, ok, f2)
    \/ \E e \in Exports, f1, f2 \in Faults :
           \E outcome \in PdfOutcomes : PdfSettled(e, outcome, f1, f2)

\* The runs of export.  The hide timers stay pending here: their callback
\* writes pdfExportProgress alone, which no step of export reads; SpecTimers
\* lets them fire.
Spec == Init /\ [][Next]_vars

NextTimers ==
    \/ Next
    \/ \E timer \in pdfExportProgress.pending : HideTimerFired(timer)

SpecTimers == Init /\ [][NextTimers]_vars

\* A step of the environment: an import resolves or rejects, the imported
\* module sets the global, the poll timer fires, an awaited converter call,
\* blob read or compilation returns or raises and the call runs on to its
\* next await.
ExternalStep ==
    \/ PandocImported \/ PandocImportFailed
    \/ TypstImported \/ TypstImportFailed
    \/ TypstGlobalSet
    \/ TypstPolled
    \/ \E e \in Exports, f1, f2 \in Faults :
          \/ ExportLoaded(e, f1, f2)
          \/ \E error \in LoadRejections : ExportLoadFailed(e, error, f2)
          \/ \E outcome \in ConvertOutcomes(calls[e]) :
                ConvertSettled(e, outcome, f1, f2)
          \/ \E outcome \in MathOutcomes(
                    IF calls[e].pc = "awaitMath"
                    THEN calls[e].mathCalls[calls[e].i] ELSE << >>) :
                MathSettled(e, outcome, f1, f2)
          \/ \E ok \in BOOLEAN : BlobSettled(e, ok, f2)
          \/ \E outcome \in PdfOutcomes : PdfSettled(e, outcome, f1, f2)

\* The runs in which every external step settles: as long as an import, the
\* poll timer or an awaited call is outstanding, one of them settles.  No step
\* of one call takes away a step another call or a load is waiting for, so
\* this is as much as each of them settling.
SpecLive == Spec /\ WF_vars(ExternalStep)

\* export talking to a progress collaborator whose calls may raise
InitFaulty == InitShared /\ collaborator = "raising"

SpecFaulty == InitFaulty /\ [][Next]_vars

(***************************************************************************)
(* The extractor and the splicer on their own: a single call is placed     *)
(* right before the step that runs them, the engines loaded, over a wider  *)
(* range of notebooks and converter outputs than the concurrent calls of   *)
(* Spec handle.                                                            *)
(***************************************************************************)
\* largest number of outputs of a notebook handed to the extractor
MaxOutputs == 3

EnginesLoaded ==
    /\ pandocConvert = TRUE
    /\ pandocLoadingPromise = "fulfilled"
    /\ typstLoaded = TRUE
    /\ typstLoadingPromise = "fulfilled"
    /\ typstGlobal = "defined"
    /\ typstLoadStep = "done"
    /\ loads = [pandoc |-> 1, typst |-> 1]
    /\ collaborator = "PdfExportProgress"

\* the state in which call 1 stands as in w and no other call was made
SingleCall(w) ==
    /\ EnginesLoaded
    /\ calls = [e \in Exports |-> IF e = 1 THEN w.c ELSE InitCall]
    /\ pdfExportProgress = w.p
    /\ shadow = w.shadow

\* call 1 at line 56 with the notebook model
Called(model) ==
    SegStart(World(InitCall, InitProgress, {}), model, FALSE, FALSE)

\* a wrapped source stored as lines, blanks around the expression a$b
WrappedLines ==
    ListVal(<< DISPLAYSTYLE \o <<" ", " ", "a", "$", "b", " ", NL>>, <<"$", NL>> >>)

\* the outputs the notebooks of SpecExtract are made of
OutputChoices ==
    { Output("execute_result", TRUE, StrVal(Wrapped(GoodSource(1))), StrVal(<<"r">>)),
      Output("display_data", TRUE,
             ListVal(<< <<" ", "a", NL>>, <<"b", " ", NL>> >>), Undefined),
      Output("update_display_data", TRUE, StrVal(<<"c">>), Undefined),
      Output("update_display_data", TRUE, Undefined, StrVal(<<"p">>)),
      Output("stream", FALSE, Undefined, Undefined),
      Output("execute_result", TRUE, Undefined, StrVal(Placeholder(0))),
      Output("display_data", TRUE, WrappedLines, Undefined),
      Output("execute_result", TRUE, StrVal(<<"$", "y", "$">>), Undefined),
      Output("execute_result", TRUE, StrVal(DISPLAYSTYLE \o <<" ", "z">>),
             Undefined) }

\* a code cell with the first j outputs of os, a markdown cell without
\* outputs, a code cell with the other outputs
ExtractModel(os, j) ==
    << Cell(<<"c">>, TRUE, SubSeq(os, 1, j)),
       Cell(<<"#">>, FALSE, << >>),
       Cell(<<"d">>, TRUE, SubSeq(os, j + 1, Len(os))) >>

InitExtract ==
    \E m \in 0..MaxOutputs :
        \E os \in [1..m -> OutputChoices], j \in 0..m :
            SingleCall(Called(ExtractModel(os, j)))

NextExtract == \E e \in Exports, f1, f2 \in Faults : ExportLoaded(e, f1, f2)

SpecExtract == InitExtract /\ [][NextExtract]_vars

\* the empty set and the singletons of S
AtMostOne(S) == {{}} \cup {{x} : x \in S}

\* call 1 at line 288 for the first entry: the notebook has n math outputs,
\* those in bad malformed, and the converter dropped the blocks of dropped
Converted(n, bad, dropped) ==
    LET w == SegLoaded(Called(NotebookWithMath(n, bad)), FALSE, FALSE)
    IN SegConverted(w,
           [raised |-> FALSE,
            result |-> ConvertResult(Markup(w.c.mathMap, dropped), NoStderr,
                                     MediaNone)],
           FALSE, FALSE)

InitSplice ==
    \E n \in 1..MaxMath :
        \E bad \in AtMostOne(1..n), dropped \in AtMostOne(1..n) :
            SingleCall(Converted(n, bad, dropped))

NextSplice ==
    \E e \in Exports, f1, f2 \in Faults :
        \E outcome \in MathOutcomes(
               IF calls[e].pc = "awaitMath"
               THEN calls[e].mathCalls[calls[e].i] ELSE << >>) :
            MathSettled(e, outcome, f1, f2)

SpecSplice == InitSplice /\ [][NextSplice]_vars

(***************************************************************************)
(* The splicer on converter outputs whose fences are missing or wider than *)
(* three characters.                                                       *)
(***************************************************************************)
\* widest fence of a block of the converter's output
MaxFence == 4

\* largest number of math outputs of the notebooks of SpecFence
MaxShaped == 2

Fences(width) == [j \in 1..width |-> FENCE]
FenceWidths == {0, 3, MaxFence}

\* a block whose opening fence is ow wide and whose closing fence is cw wide
ShapedBlock(text, ow, cw) ==
    Fences(ow) \o <<NL>> \o text \o <<NL>> \o Fences(cw) \o <<NL>>

\* widths[j] is the pair of fence widths of the block of entry j
RECURSIVE ShapedBlocks(_, _, _)
ShapedBlocks(mathMap, widths, j) ==
    IF j > Len(mathMap) THEN << >>
    ELSE ShapedBlock(mathMap[j].placeholder, widths[j][1], widths[j][2])
             \o ShapedBlocks(mathMap, widths, j + 1)
ShapedMarkup(mathMap, widths) == <<"T", NL>> \o ShapedBlocks(mathMap, widths, 1)

\* call 1 at line 288 for the first entry, the converter's output shaped by
\* widths
ConvertedShaped(n, bad, widths) ==
    LET w == SegLoaded(Called(NotebookWithMath(n, bad)), FALSE, FALSE)
    IN SegConverted(w,
           [raised |-> FALSE,
            result |-> ConvertResult(ShapedMarkup(w.c.mathMap, widths), NoStderr,
                                     MediaNone)],
           FALSE, FALSE)

InitFence ==
    \E n \in 1..MaxShaped :
        \E bad \in AtMostOne(1..n),
           widths \in [1..n -> FenceWidths \X FenceWidths] :
            SingleCall(ConvertedShaped(n, bad, widths))

SpecFence == InitFence /\ [][NextSplice]_vars

(***************************************************************************)
(* The splicer on converter outputs that hold the block of every           *)
(* placeholder, for notebooks whose malformed source may spell out the     *)
(* text of a placeholder token.                                            *)
(***************************************************************************)
\* a malformed source that mentions the token of the output after output n
EchoSource(n) == BadSource(n) \o Placeholder(n)

MathOutputEcho(n, bad, echo) ==
    Output("execute_result", TRUE,
           StrVal(Wrapped(IF n \in bad
                          THEN (IF echo THEN EchoSource(n) ELSE BadSource(n))
                          ELSE GoodSource(n))),
           StrVal(<<"r">>))

NotebookEcho(n, bad, echo) ==
    << Cell(<<"#", " ", "T">>, FALSE, << >>),
       Cell(<<"c">>, TRUE, [j \in 1..n |-> MathOutputEcho(j, bad, echo)]) >>

\* call 1 at line 288 for the first entry, every block in the converter's
\* output
ConvertedPresent(n, bad, echo) ==
    LET w == SegLoaded(Called(NotebookEcho(n, bad, echo)), FALSE, FALSE)
    IN SegConverted(w,
           [raised |-> FALSE,
            result |-> ConvertResult(Markup(w.c.mathMap, {}), NoStderr,
                                     MediaNone)],
           FALSE, FALSE)

InitPresent ==
    \E n \in 1..MaxMath :
        \E bad \in AtMostOne(1..n), echo \in BOOLEAN :
            SingleCall(ConvertedPresent(n, bad, echo))

SpecPresent == InitPresent /\ [][NextSplice]_vars

(***************************************************************************)
(* The splicer for notebooks with a source whose math-fragment call        *)
(* returns without a usable result.                                        *)
(***************************************************************************)
MathOutputUnusable(n, bad, unusable) ==
    Output("execute_result", TRUE,
           StrVal(Wrapped(IF n \in bad THEN BadSource(n)
                          ELSE IF n \in unusable THEN UnusableSource(n)
                          ELSE GoodSource(n))),
           StrVal(<<"r">>))

NotebookUnusable(n, bad, unusable) ==
    << Cell(<<"#", " ", "T">>, FALSE, << >>),
       Cell(<<"c">>, TRUE, [j \in 1..n |-> MathOutputUnusable(j, bad, unusable)]) >>

ConvertedUnusable(n, bad, unusable) ==
    LET w == SegLoaded(Called(NotebookUnusable(n, bad, unusable)), FALSE, FALSE)
    IN SegConverted(w,
           [raised |-> FALSE,
            result |-> ConvertResult(Markup(w.c.mathMap, {}), NoStderr,
                                     MediaNone)],
           FALSE, FALSE)

InitUnusable ==
    \E n \in 1..MaxMath :
        \E bad \in AtMostOne(1..n), unusable \in AtMostOne(1..n) :
            SingleCall(ConvertedUnusable(n, bad, unusable))

SpecUnusable == InitUnusable /\ [][NextSplice]_vars

(***************************************************************************)
(* Claims.                                                                 *)
(***************************************************************************)
Range(seq) == {seq[j] : j \in 1..Len(seq)}
IsPrefix(a, b) == Len(a) <= Len(b) /\ SubSeq(b, 1, Len(a)) = a

\* C1: a call of export made after the load of an engine was rejected starts
\* a fresh load of that engine instead of awaiting the rejected one.
C1_FreshLoadAfterFailure ==
    [][\A e \in Exports :
         (calls[e].pc = "idle" /\ calls'[e].pc = "awaitLoad") =>
            /\ pandocLoadingPromise = "rejected" => pandocLoadingPromise' = "pending"
            /\ typstLoadingPromise = "rejected" => typstLoadingPromise' = "pending"]_vars

\* C2: each engine's load is started at most once, however the calls of
\* export overlap or follow each other, and a call suspended at line 56 awaits
\* the one load that was started.
C2_LoadStartedAtMostOnce ==
    /\ loads.pandoc <= 1
    /\ loads.typst <= 1
    /\ \A e \in Exports :
         calls[e].pc = "awaitLoad" =>
            /\ loads.pandoc = 1 /\ pandocLoadingPromise # "null"
            /\ loads.typst = 1 /\ typstLoadingPromise # "null"

\* two calls suspended on the same in-flight loads
C2_Witness ==
    /\ calls[1].pc = "awaitLoad" /\ calls[2].pc = "awaitLoad"
    /\ pandocLoadingPromise = "pending" /\ typstLoadingPromise = "pending"
    /\ loads = [pandoc |-> 1, typst |-> 1]

\* C3: when the whole-notebook converter call returns a stderr holding ERROR,
\* the call fails with the conversion failure carrying that stderr, makes no
\* math-fragment call, no call on $typst and no download, and the failure is
\* notified; a stderr without the marker is no conversion failure.
C3_ErrorMarkerAbortsExport ==
    \A e \in Exports :
        LET c == calls[e]
        IN /\ Includes(c.result.stderr, ERROR_MARKER) =>
                 /\ c.pc = "failed"
                 /\ c.error = ConversionFailed(c.result.stderr)
                 /\ c.mathCalls = << >>
                 /\ c.engine = << >>
                 /\ c.download = NoPdf
                 /\ MSG_FAILED \in Range(c.events)
                 /\ MSG_SUCCESS \notin Range(c.events)
           /\ c.error.name = ConversionFailed(<< >>).name =>
                 Includes(c.result.stderr, ERROR_MARKER)
           /\ (c.pc \in {"awaitMath", "awaitBlob", "awaitPdf", "done"}) =>
                 ~Includes(c.result.stderr, ERROR_MARKER)

\* a call failed by the marker, and another past a stderr without it
C3_Witness ==
    \E e, x \in Exports :
        /\ calls[e].result.stderr = STDERR_ERROR /\ calls[e].pc = "failed"
        /\ calls[x].result.stderr = STDERR_WARNING /\ calls[x].pc = "done"

\* C4: a call is Done only with a non-empty buffer from the compiler, which
\* is what was downloaded; a zero-length or missing buffer fails the call with
\* the empty-output error, without download and without success notification.
C4_DoneOnlyWithNonEmptyPdf ==
    \A e \in Exports :
        LET c == calls[e]
        IN /\ c.pc = "done" =>
                 /\ c.pdfData.kind = "bytes" /\ c.pdfData.length > 0
                 /\ c.download = c.pdfData
                 /\ MSG_SUCCESS \in Range(c.events)
           /\ c.pdfData.kind = "null"
                \/ (c.pdfData.kind = "bytes" /\ c.pdfData.length = 0) =>
                 /\ c.pc = "failed"
                 /\ c.error = EmptyOutput /\ c.error # CompilerRaised
                 /\ c.download = NoPdf
                 /\ MSG_SUCCESS \notin Range(c.events)

\* one call failed on a zero-length buffer, another on a missing one
C4_Witness ==
    \E e, x \in Exports :
        /\ calls[e].pc = "failed"
        /\ calls[e].pdfData = [kind |-> "bytes", length |-> 0]
        /\ calls[x].pc = "failed"
        /\ calls[x].pdfData.kind = "null"

\* C5: a failed call has told the progress collaborator of the failure just
\* before throwing, throws what was thrown inside the try block, and has never
\* notified success.
C5_FailureNotifiedBeforeThrow ==
    \A e \in Exports :
        LET c == calls[e]
            n == Len(c.events)
        IN c.pc = "failed" =>
              /\ n >= 2
              /\ c.events[n] = "throw"
              /\ c.events[n - 1] = MSG_FAILED
              /\ MSG_SUCCESS \notin Range(c.events)
              /\ c.error = c.cause
              /\ c.error \in {PandocImportError, TypstImportError, ConverterRaised,
                              ConversionFailed(c.result.stderr), BlobReadError,
                              CompilerRaised, EmptyOutput}

\* a call failed by the compiler raising, another by the converter raising
C5_Witness ==
    \E e, x \in Exports :
        /\ calls[e].pc = "failed" /\ calls[e].error = CompilerRaised
        /\ calls[x].pc = "failed" /\ calls[x].error = ConverterRaised

\* C6: a call never fails with an error of the progress collaborator: start,
\* update and finish raising leave the outcome what the engines made it.
C6_OutcomeIgnoresCollaborator ==
    \A e \in Exports :
        calls[e].pc = "failed" => calls[e].error # CollaboratorRaised

\* the calls on $typst of a call that compiles, in the order of the claim
MediaBytes(content) ==
    IF content.kind = "blob" THEN BlobBytes(content) ELSE Encode(content.s)
ExpectedEngineCalls(c) ==
    << EngineCall("resetShadow", << >>, << >>),
       EngineCall("mapShadow", MAIN_PATH, Encode(c.typstContent)) >>
    \o [j \in 1..Len(c.result.mediaFiles) |->
          EngineCall("mapShadow", <<"/">> \o c.result.mediaFiles[j].filename,
                     MediaBytes(c.result.mediaFiles[j].content))]
    \o << EngineCall("pdf", MAIN_PATH, << >>) >>
ExpectedFiles(c) ==
    {[path |-> MAIN_PATH, data |-> Encode(c.typstContent)]}
    \cup {[path |-> <<"/">> \o c.result.mediaFiles[j].filename,
           data |-> MediaBytes(c.result.mediaFiles[j].content)] :
             j \in 1..Len(c.result.mediaFiles)}
Compiled(c) == c.engine # << >> /\ c.engine[Len(c.engine)].op = "pdf"

\* C7: the calls a call of export makes on $typst are resetShadow, mapShadow
\* of the final markup at /main.typ, mapShadow of each media file in turn, then
\* pdf from /main.typ; and when no other call was in flight meanwhile, the
\* shadow filesystem at pdf() holds exactly the files this call mapped.
C7_EngineCallOrder ==
    \A e \in Exports :
        LET c == calls[e]
        IN /\ IsPrefix(c.engine, ExpectedEngineCalls(c))
           /\ Compiled(c) =>
                 /\ c.engine = ExpectedEngineCalls(c)
                 /\ ~c.overlapped => c.compiledWith = ExpectedFiles(c)

\* a call compiling without media files after an earlier call that had mapped
\* two, the calls one after the other
C7_Witness ==
    /\ calls[1].pc = "done" /\ Len(calls[1].result.mediaFiles) = 2
    /\ Compiled(calls[2]) /\ ~calls[2].overlapped
    /\ ~calls[2].result.hasMedia

\* every text of a notebook: cell sources and the strings of the MIME values
MimeTexts(v) ==
    CASE v.kind = "string" -> {v.s}
      [] v.kind = "list" -> Range(v.l)
      [] OTHER -> {}
NotebookTexts(notebook) ==
    UNION { {notebook[j].source}
            \cup UNION { MimeTexts(notebook[j].outputs[o].latex)
                         \cup MimeTexts(notebook[j].outputs[o].plain) :
                           o \in 1..Len(notebook[j].outputs) } :
          j \in 1..Len(notebook) }

\* C8: the placeholders of one call of preprocessNotebook are pairwise
\* distinct, and none equals a text the notebook held before the call.
C8_PlaceholdersFresh ==
    \A e \in Exports :
        LET c == calls[e]
        IN c.pc = "awaitConvert" =>
              /\ \A j, o \in 1..Len(c.mathMap) :
                    j # o => c.mathMap[j].placeholder # c.mathMap[o].placeholder
              /\ \A j \in 1..Len(c.mathMap) :
                    c.mathMap[j].placeholder \notin NotebookTexts(c.model)

\* the token occurs in text as a whole token, not as the start of a longer one
IsDigit(ch) == ch \in {"0", "1", "2", "3", "4", "5", "6", "7", "8", "9"}
TokenOccurs(text, token) ==
    \E j \in 0..(Len(text) - Len(token)) :
        /\ MatchAt(text, token, j)
        /\ j + Len(token) < Len(text) => ~IsDigit(CharAt(text, j + Len(token)))

\* C9: the entry of a placeholder that is absent from the converter's output
\* leaves the document as it was, whatever other placeholders are present.
C9_AbsentPlaceholderChangesNothing ==
    [][\A e \in Exports :
         (/\ calls[e].pc = "awaitMath"
          /\ ~TokenOccurs(calls[e].result.stdout,
                          calls[e].mathMap[calls[e].i].placeholder))
         => calls'[e].typstContent = calls[e].typstContent]_vars

\* the document with the fenced block of each placeholder present in the
\* converter's output replaced by that entry's own math
BlockPresent(c, j) == Includes(c.result.stdout, FencedBlock(c.mathMap[j].placeholder))
OwnMath(c, j) ==
    IF c.mathOutcomes[j].raised THEN FallbackBlock(c.mathMap[j].latexContent)
    ELSE Trim(MathRendering(MathStdin(c.mathMap[j].latexContent)))
RECURSIVE OwnBlocks(_, _)
OwnBlocks(c, j) ==
    IF j > Len(c.mathMap) THEN << >>
    ELSE (IF BlockPresent(c, j) THEN OwnMath(c, j) \o <<NL, NL>> ELSE << >>)
             \o OwnBlocks(c, j + 1)
Spliced(c) == c.pc \in {"awaitBlob", "awaitPdf", "done"}

\* C10: when the conversion of the math of a placeholder whose block is in
\* the converter's output raises, the call goes on to compilation with a
\* document that holds the fallback block with that source in place of the
\* placeholder's block and, in place of every other block, the math converted
\* from that block's own source.
C10_FallbackInPlace ==
    \A e \in Exports :
        LET c == calls[e]
        IN (/\ c.pc \notin {"idle", "awaitLoad", "awaitConvert", "awaitMath"}
            /\ Len(c.mathOutcomes) = Len(c.mathMap)
            /\ \E j \in 1..Len(c.mathMap) :
                  c.mathOutcomes[j].raised /\ BlockPresent(c, j))
           => /\ Spliced(c)
              /\ c.typstContent = <<"T", NL>> \o OwnBlocks(c, 1)

\* the first place where token occurs in text (0-based), -1 when nowhere
FirstOccurrence(text, token) ==
    LET occ == {j \in 0..(Len(text) - Len(token)) : MatchAt(text, token, j)}
    IN IF occ = {} THEN -1 ELSE CHOOSE j \in occ : \A x \in occ : j <= x
FenceAtOrAfter(text, from) ==
    \E q \in from..(Len(text) - 1) : CharAt(text, q) = FENCE
FenceBefore(text, before) ==
    \E q \in 0..(before - 1) : CharAt(text, q) = FENCE
\* the entry of call c being converted finds its placeholder with no fence
\* character anywhere after it
NoClosingFence(c) ==
    LET P == c.mathMap[c.i].placeholder
        at == FirstOccurrence(c.typstContent, P)
    IN at # -1 /\ ~FenceAtOrAfter(c.typstContent, at + Len(P))

\* C11: an entry whose placeholder occurs in the document with no fence
\* character after it is skipped: the step neither fails the call nor changes
\* the document.
C11_NoClosingFenceSkips ==
    [][\A e \in Exports :
         (calls[e].pc = "awaitMath" /\ NoClosingFence(calls[e]))
         => /\ calls'[e].typstContent = calls[e].typstContent
            /\ calls'[e].pc # "failed"
            /\ calls'[e].error = NoError]_vars

\* a call past the splicer whose only placeholder had an opening fence and no
\* closing one, the document still what the converter returned
C11_Witness ==
    \E e \in Exports :
        LET c == calls[e]
        IN /\ c.pc = "awaitPdf"
           /\ Len(c.mathMap) = 1 /\ Len(c.mathOutcomes) = 1
           /\ FirstOccurrence(c.result.stdout, c.mathMap[1].placeholder) # -1
           /\ FenceBefore(c.result.stdout,
                          FirstOccurrence(c.result.stdout, c.mathMap[1].placeholder))
           /\ ~FenceAtOrAfter(c.result.stdout,
                  FirstOccurrence(c.result.stdout, c.mathMap[1].placeholder))
           /\ c.typstContent = c.result.stdout

\* the document mapped at /main.typ by call c
MainDocument(c) == c.engine[2].data

\* C12: when the converter's output holds the fenced block of every
\* placeholder of the math map, the document mapped into the compiler as
\* /main.typ holds the text of no placeholder.
C12_NoPlaceholderLeft ==
    \A e \in Exports :
        LET c == calls[e]
        IN (/\ Spliced(c)
            /\ c.mathMap # << >>
            /\ \A j \in 1..Len(c.mathMap) : BlockPresent(c, j))
           => \A j \in 1..Len(c.mathMap) :
                 /\ ~Includes(c.typstContent, c.mathMap[j].placeholder)
                 /\ MainDocument(c) = Encode(c.typstContent)

\* the outputs of a notebook as (cell, output) pairs, and their order
OutputPairs(notebook) ==
    UNION { {<<j, o>> : o \in 1..Len(notebook[j].outputs)} :
              j \in {x \in 1..Len(notebook) : notebook[x].outputsIsArray} }
OutputAt(notebook, p) == notebook[p[1]].outputs[p[2]]
IsMath(output) == output.hasData /\ output.latex.kind # "undefined"
MathPairs(notebook) == {p \in OutputPairs(notebook) : IsMath(OutputAt(notebook, p))}
Before(p, q) == p[1] < q[1] \/ (p[1] = q[1] /\ p[2] < q[2])
\* how many math outputs come before the output at p
Rank(notebook, p) == Cardinality({q \in MathPairs(notebook) : Before(q, p)})

\* stored is text without the blanks at its two ends
StripsTo(text, stored) ==
    /\ stored # << >> => ~IsSpace(stored[1]) /\ ~IsSpace(stored[Len(stored)])
    /\ \E a \in 0..Len(text) : \E b \in a..Len(text) :
          /\ SubSeq(text, a + 1, b) = stored
          /\ \A q \in 1..a : IsSpace(text[q])
          /\ \A q \in (b + 1)..Len(text) : IsSpace(text[q])
Joined(v) == IF v.kind = "list" THEN Join(v.l) ELSE v.s
\* raw has the form $\displaystyle X$, X being inner
IsWrapped(raw, inner) == raw = DISPLAYSTYLE \o inner \o <<"$">>
InnerOf(raw) == SubSeq(raw, Len(DISPLAYSTYLE) + 1, Len(raw) - 1)

\* C13: for a math source that, joined and without the blanks around it, has
\* the form $\displaystyle X$, the stored source is X without the blanks
\* around it; for any other source the stored source is the joined input
\* without the blanks around it.
C13_WrapperStripped ==
    \A e \in Exports :
        LET c == calls[e]
        IN c.pc = "awaitConvert" =>
             \A p \in MathPairs(c.model) :
                LET stored == c.mathMap[Rank(c.model, p) + 1].latexContent
                    joined == Joined(OutputAt(c.model, p).latex)
                IN \E a \in 0..Len(joined) : \E b \in a..Len(joined) :
                      LET raw == SubSeq(joined, a + 1, b)
                      IN /\ StripsTo(joined, raw)
                         /\ IF IsWrapped(raw, InnerOf(raw))
                            THEN StripsTo(InnerOf(raw), stored)
                            ELSE stored = raw

\* a notebook with the wrapped lines around a$b and the unwrapped lines a, b
C13_Witness ==
    \E e \in Exports :
        LET c == calls[e]
        IN /\ c.pc = "awaitConvert"
           /\ \E p, q \in MathPairs(c.model) :
                 /\ OutputAt(c.model, p).latex = WrappedLines
                 /\ c.mathMap[Rank(c.model, p) + 1].latexContent = <<"a", "$", "b">>
                 /\ OutputAt(c.model, q).latex.kind = "list"
                 /\ c.mathMap[Rank(c.model, q) + 1].latexContent = <<"a", NL, "b">>

\* C14: once preprocessNotebook has run, no output of the notebook has the
\* type update_display_data: the outputs that had it have display_data, with
\* or without text/latex, and every other output has the type it had.
C14_NoUpdateDisplayData ==
    \A e \in Exports :
        LET c == calls[e]
        IN c.pc = "awaitConvert" =>
             /\ OutputPairs(c.notebook) = OutputPairs(c.model)
             /\ \A p \in OutputPairs(c.model) :
                   /\ OutputAt(c.notebook, p).output_type # "update_display_data"
                   /\ OutputAt(c.notebook, p).output_type =
                        IF OutputAt(c.model, p).output_type = "update_display_data"
                        THEN "display_data"
                        ELSE OutputAt(c.model, p).output_type

\* a notebook that had one update_display_data output with text/latex and one
\* without
C14_Witness ==
    \E e \in Exports :
        LET c == calls[e]
        IN /\ c.pc = "awaitConvert"
           /\ \E p, q \in OutputPairs(c.model) :
                 /\ OutputAt(c.model, p).output_type = "update_display_data"
                 /\ IsMath(OutputAt(c.model, p))
                 /\ OutputAt(c.model, q).output_type = "update_display_data"
                 /\ ~IsMath(OutputAt(c.model, q))
                 /\ OutputAt(c.notebook, p).output_type = "display_data"
                 /\ OutputAt(c.notebook, q).output_type = "display_data"

\* C15: a call whose notebook has no output with text/latex makes no
\* math-fragment converter call, and the document it maps at /main.typ is the
\* stdout of the whole-notebook converter call, character for character.
C15_EmptyMapNoSplice ==
    \A e \in Exports :
        LET c == calls[e]
        IN (c.pc \notin {"idle", "awaitLoad"} /\ MathPairs(c.model) = {}) =>
              /\ c.mathMap = << >>
              /\ c.mathCalls = << >>
              /\ c.pc # "awaitMath"
              /\ Len(c.engine) >= 2 =>
                    /\ c.typstContent = c.result.stdout
                    /\ c.engine[2] =
                         EngineCall("mapShadow", MAIN_PATH, Encode(c.result.stdout))

\* a call done for a notebook without math next to a call that converted a
\* math fragment
C15_Witness ==
    \E e, x \in Exports :
        /\ calls[e].pc = "done" /\ MathPairs(calls[e].model) = {}
        /\ calls[e].result.stdout # << >>
        /\ MainDocument(calls[e]) = Encode(calls[e].result.stdout)
        /\ calls[x].mathCalls # << >>

\* the phase a call is in, and the progress messages of the phases in order
PhaseOf(c) ==
    CASE c.pc = "idle" -> 0
      [] c.pc = "awaitLoad" -> 1
      [] c.pc \in {"awaitConvert", "awaitMath"} -> 2
      [] c.pc \in {"awaitBlob", "awaitPdf"} -> 3
      [] c.pc = "done" -> 4
      [] OTHER -> 5
PhaseMessages == <<MSG_PREPARING, MSG_CONVERTING, MSG_GENERATING>>
Finished(c) == c.pc \in {"done", "failed"}
PhasesInOrder(c) ==
    CASE c.pc = "done" ->
            c.events = PhaseMessages \o <<MSG_SUCCESS, "return">>
      [] c.pc = "failed" ->
            \E k \in 1..3 :
                c.events = SubSeq(PhaseMessages, 1, k) \o <<MSG_FAILED, "throw">>
      [] OTHER -> c.events = SubSeq(PhaseMessages, 1, PhaseOf(c))
PhaseStep(c, d) ==
    /\ Finished(c) => d = c
    /\ ~Finished(c) =>
          \/ PhaseOf(d) = PhaseOf(c)
          \/ PhaseOf(d) = PhaseOf(c) + 1
          \/ d.pc = "failed" /\ PhaseOf(c) >= 1
    /\ IsPrefix(c.events, d.events)

\* C16: a call goes from Idle to Preparing, Converting, Compiling and Done one
\* phase at a time, or from any of the three working phases to Failed, and
\* never back or on from Done or Failed; the progress collaborator gets the
\* start message, the Converting update, the Generating update, up to the
\* phase reached, then exactly one finish.
C16_PhasesInOrder ==
    /\ [](\A e \in Exports : PhasesInOrder(calls[e]))
    /\ [][\A e \in Exports : PhaseStep(calls[e], calls'[e])]_vars

\* one call done through every phase, another failed while Converting
C16_Witness ==
    \E e, x \in Exports :
        /\ calls[e].pc = "done"
        /\ calls[e].events = PhaseMessages \o <<MSG_SUCCESS, "return">>
        /\ calls[x].pc = "failed"
        /\ calls[x].events = <<MSG_PREPARING, MSG_CONVERTING, MSG_FAILED, "throw">>

\* call c has invoked the converter or called $typst
UsedEngines(c) ==
    \/ c.pc \in {"awaitConvert", "awaitMath", "awaitBlob", "awaitPdf", "done"}
    \/ MSG_CONVERTING \in Range(c.events)
    \/ c.result # NoResult
    \/ c.mathCalls # << >>
    \/ c.engine # << >>

\* C17: whichever way the calls interleave, a call has invoked the converter
\* or called $typst only with both loads completed: the converter handle set
\* and the global $typst defined.
C17_EnginesLoadedBeforeUse ==
    \A e \in Exports :
        UsedEngines(calls[e]) =>
            /\ pandocConvert
            /\ pandocLoadingPromise = "fulfilled"
            /\ typstGlobal = "defined"
            /\ typstLoaded
            /\ typstLoadingPromise = "fulfilled"

\* one call compiling while the other, started later, still awaits the
\* converter
C17_Witness ==
    /\ calls[1].pc = "awaitPdf"
    /\ calls[2].pc = "awaitConvert"
    /\ calls[1].overlapped

\* C18: the outputs with text/latex get the tokens PDFEXPORTER_MATH_0,
\* PDFEXPORTER_MATH_1, ... in cell order then output order, counted from 0 in
\* each call; afterwards each has the token as text/plain and no text/latex,
\* the map holds one entry per such output in that order, every other output
\* keeps its data; so the assignment depends on the notebook alone.
C18_NumberedInOrder ==
    \A e \in Exports :
        LET c == calls[e]
        IN c.pc = "awaitConvert" =>
             /\ Len(c.mathMap) = Cardinality(MathPairs(c.model))
             /\ \A p \in MathPairs(c.model) :
                   LET r == Rank(c.model, p)
                   IN /\ c.mathMap[r + 1].placeholder = Placeholder(r)
                      /\ OutputAt(c.notebook, p).plain = StrVal(Placeholder(r))
                      /\ OutputAt(c.notebook, p).latex = Undefined
             /\ \A p \in OutputPairs(c.model) \ MathPairs(c.model) :
                   /\ OutputAt(c.notebook, p).plain = OutputAt(c.model, p).plain
                   /\ OutputAt(c.notebook, p).latex = OutputAt(c.model, p).latex
             /\ \A x \in Exports :
                   (calls[x].pc = "awaitConvert" /\ calls[x].model = c.model)
                      => calls[x].mathMap = c.mathMap

\* math outputs in both code cells, one without text/latex before the last
C18_Witness ==
    \E e \in Exports :
        LET c == calls[e]
        IN /\ c.pc = "awaitConvert"
           /\ Len(c.mathMap) = 2
           /\ \E p, q \in MathPairs(c.model) : p[1] = 1 /\ q[1] = 3 /\ q[2] = 2
           /\ <<3, 1>> \in OutputPairs(c.model) \ MathPairs(c.model)
           /\ OutputAt(c.notebook, <<3, 2>>).plain = StrVal(Placeholder(1))

\* the fenced block whose content is exactly text, as the converter writes it
ExactBlock(text) ==
    <<FENCE, FENCE, FENCE, NL>> \o text \o <<NL, FENCE, FENCE, FENCE>>
\* after is before with the span [from, to) replaced by math and a newline
ReplacedSpan(before, after, from, to, math) ==
    after = SubSeq(before, 1, from) \o math \o <<NL>>
                \o SubSeq(before, to + 1, Len(before))

\* C19: a step of the splicer that changes the document replaces a fenced
\* block whose content is exactly the placeholder of the entry, by the math
\* of that entry: never the block of a longer token that starts with it.
C19_ExactBlockReplaced ==
    [][\A e \in Exports :
         (calls[e].pc = "awaitMath"
            /\ calls'[e].typstContent # calls[e].typstContent)
         => LET c == calls[e]
                P == c.mathMap[c.i].placeholder
            IN \E a \in 0..Len(c.typstContent) :
                  /\ MatchAt(c.typstContent, ExactBlock(P), a)
                  /\ ReplacedSpan(c.typstContent, calls'[e].typstContent,
                                  a, a + Len(ExactBlock(P)),
                                  OwnMath(calls'[e], c.i))]_vars

\* the fence run that holds position q of text: its first and last position
RunStart(text, q) ==
    CHOOSE a \in 0..q :
        /\ \A x \in a..q : CharAt(text, x) = FENCE
        /\ a > 0 => CharAt(text, a - 1) # FENCE
RunEnd(text, q) ==
    CHOOSE b \in q..(Len(text) - 1) :
        /\ \A x \in q..b : CharAt(text, x) = FENCE
        /\ b + 1 < Len(text) => CharAt(text, b + 1) # FENCE
LastFenceBefore(text, before) ==
    CHOOSE q \in 0..(before - 1) :
        /\ CharAt(text, q) = FENCE
        /\ \A x \in (q + 1)..(before - 1) : CharAt(text, x) # FENCE
FirstFenceFrom(text, from) ==
    CHOOSE q \in from..(Len(text) - 1) :
        /\ CharAt(text, q) = FENCE
        /\ \A x \in from..(q - 1) : CharAt(text, x) # FENCE

\* the step from c to d replaced the span from the start of the fence run
\* before the placeholder to the end of the fence run after it; with no fence
\* before the placeholder, a span that starts no later than the placeholder
SpanReplaced(c, d) ==
    LET doc == c.typstContent
        P == c.mathMap[c.i].placeholder
        at == FirstOccurrence(doc, P)
        math == OwnMath(d, c.i)
    IN /\ at # -1
       /\ FenceAtOrAfter(doc, at + Len(P))
       /\ LET to == RunEnd(doc, FirstFenceFrom(doc, at + Len(P))) + 1
          IN IF FenceBefore(doc, at)
             THEN ReplacedSpan(doc, d.typstContent,
                               RunStart(doc, LastFenceBefore(doc, at)), to, math)
             ELSE \E from \in 0..at :
                     ReplacedSpan(doc, d.typstContent, from, to, math)

\* C20: a step of the splicer that changes the document removes the one span
\* from the first character of the fence run before the placeholder to the
\* last character of the fence run after it, whatever the two widths, and
\* keeps the text before and after the span once and in order; with no fence
\* character before the placeholder the text outside the span is kept too.
C20_SpanReplaced ==
    [][\A e \in Exports :
         (calls[e].pc = "awaitMath"
            /\ calls'[e].typstContent # calls[e].typstContent)
         => SpanReplaced(calls[e], calls'[e])]_vars

\* the result of a math-fragment call that returned cannot be used
Unusable(outcome) ==
    /\ ~outcome.raised
    /\ Includes(outcome.stderr, ERROR_MARKER) \/ Trim(outcome.stdout) = << >>
\* what stands in place of the block of entry j: the fallback block when the
\* call raised or its result cannot be used, the converted math otherwise
MathOrFallback(c, j) ==
    IF c.mathOutcomes[j].raised \/ Unusable(c.mathOutcomes[j])
    THEN FallbackBlock(c.mathMap[j].latexContent)
    ELSE Trim(c.mathOutcomes[j].stdout)
RECURSIVE BlocksOrFallback(_, _)
BlocksOrFallback(c, j) ==
    IF j > Len(c.mathMap) THEN << >>
    ELSE MathOrFallback(c, j) \o <<NL, NL>> \o BlocksOrFallback(c, j + 1)

\* C21: when a math-fragment call returns without raising but with the error
\* marker on stderr or nothing on stdout, the block of that placeholder is
\* replaced by the fallback block with the raw source, as when the call
\* raises, and the call goes on to compilation.
C21_UnusableResultFallsBack ==
    \A e \in Exports :
        LET c == calls[e]
        IN (/\ c.pc \notin {"idle", "awaitLoad", "awaitConvert", "awaitMath"}
            /\ Len(c.mathOutcomes) = Len(c.mathMap)
            /\ \E j \in 1..Len(c.mathMap) : Unusable(c.mathOutcomes[j]))
           => /\ Spliced(c)
              /\ c.typstContent = <<"T", NL>> \o BlocksOrFallback(c, 1)

\* C22: when calls of export overlap, the shadow filesystem at the moment a
\* call calls pdf() holds the main document and the media files that same
\* call mapped, and nothing another call reset or mapped.
C22_CompilesOwnFiles ==
    \A e \in Exports :
        Compiled(calls[e]) => calls[e].compiledWith = ExpectedFiles(calls[e])

\* C23: whenever some call of export has called start and not yet finish, the
\* progress indicator is active and shows a message, whichever hide timers
\* have fired in between.
C23_ActiveWhileExporting ==
    (\E e \in Exports : Active(calls[e])) =>
        /\ pdfExportProgress.isActive
        /\ pdfExportProgress.message # ""

\* call c has returned or thrown, the finish notification delivered before
Settled(c) ==
    \/ c.pc = "done" /\ MSG_SUCCESS \in Range(c.events)
    \/ c.pc = "failed" /\ MSG_FAILED \in Range(c.events)

\* C24: when every external step settles and the global $typst gets defined
\* after its import, every call of export that was made ends Done or Failed,
\* the progress collaborator told of the finish by then.
C24_EveryExportSettles ==
    \A e \in Exports : (calls[e].pc # "idle") ~> Settled(calls[e])

\* two overlapping calls have both ended, the first Done and the second
\* Failed, each after its finish message
C24_Witness ==
    /\ Settled(calls[1]) /\ Settled(calls[2])
    /\ calls[1].pc = "done" /\ calls[2].pc = "failed"
    /\ calls[2].overlapped

====
